---- MODULE Spec2Model ----
(***************************************************************************)
(* Model of the Legend control of olLegend (src/Legend.js): the collapse   *)
(* state machine of the panel, the per-frame collection of the legends of  *)
(* the visible layers' sources, and the conditional rebuild of the panel   *)
(* body.                                                                   *)
(*                                                                         *)
(* DOM nodes are modelled by identity: every block element created by      *)
(* document.createElement carries an id that differs from the id of every  *)
(* node still referenced by the control.                                   *)
(***************************************************************************)
EXTENDS Integers, Sequences, FiniteSets, TLC

VARIABLES
    collapsed_,         \* this.collapsed_
    collapsible_,       \* this.collapsible_
    classList,          \* this.element.classList (the state classes only)
    buttonChild,        \* the label node that is the child of the button
    display,            \* this.element.style.display
    renderedVisible_,   \* this.renderedVisible_
    renderedLegends_,   \* this.renderedLegends_
    divChildren,        \* the children of this.divElement_ (the panel body)
    lastOp,             \* the last call made on the control, with its arguments
    frameState,         \* the frame state of the map, which render receives
    legends,            \* outcome of the last collectSourceLegends_ call
    before,             \* the collapse state the last call found
    seenContent,        \* some render call has collected a non-empty content
    label_,             \* this.label_
    collapseLabel_,     \* this.collapseLabel_
    typeError           \* the last call of the control that ended with a
                        \* TypeError about a label ("none": it returned)

vars == <<collapsed_, collapsible_, classList, buttonChild, display,
          renderedVisible_, renderedLegends_, divChildren,
          lastOp, frameState, legends, before, seenContent,
          label_, collapseLabel_, typeError>>

collapseVars == <<collapsed_, collapsible_, classList, buttonChild>>
contentVars == <<display, renderedVisible_, renderedLegends_, divChildren>>
labelVars == <<label_, collapseLabel_>>

(***************************************************************************)
(* Bounds                                                                  *)
(***************************************************************************)
\* longest layerStatesArray of a frame
MaxLayers == 2
\* largest view resolution of a frame
MaxResolution == 2

(***************************************************************************)
(* Program constants                                                       *)
(***************************************************************************)
CLASS_COLLAPSED == "ol-collapsed"
CLASS_UNCOLLAPSIBLE == "ol-uncollapsible"
\* size: [30, 30]
CanvasSize == 30

(***************************************************************************)
(* Data sources.  A source is described by what the control reads from it: *)
(* whether getLegends is a function, what the call yields, the 'title'     *)
(* property (get('title')) and the getName() method of the README.         *)
(***************************************************************************)
Entry(label, style, geometry) ==
    [label |-> label, style |-> style, geometry |-> geometry]

\* the value of "legends" after lines 191-195
LegendsValue(kind, entries) == [kind |-> kind, entries |-> entries]

HydroLegends ==
    <<Entry("bassin versant", "ok", "Polygon"),
      Entry("riviere", "ok", "LineString")>>

LieuxLegends ==
    <<Entry("source", "ok", "undefined"),
      Entry("etymologie", "ok", "undefined")>>

SourceIds ==
    {"hydro", "lieux", "titled", "background", "plain", "empty", "broken",
     "badstyle", "null"}

Sources ==
    [s \in SourceIds |->
        CASE s = "hydro" ->
               [hasGetLegends |-> TRUE, title |-> "", name |-> "Hydrologie",
                returns |-> LegendsValue("array", HydroLegends)]
          [] s = "lieux" ->
               [hasGetLegends |-> TRUE, title |-> "", name |-> "Lieux historiques",
                returns |-> LegendsValue("array", LieuxLegends)]
          [] s = "titled" ->
               [hasGetLegends |-> TRUE, title |-> "Relief", name |-> "",
                returns |-> LegendsValue("object", <<Entry("courbe", "ok", "LineString")>>)]
          [] s = "background" ->
               [hasGetLegends |-> TRUE, title |-> "", name |-> "",
                returns |-> LegendsValue("undefined", <<>>)]
          [] s = "plain" ->
               [hasGetLegends |-> FALSE, title |-> "", name |-> "",
                returns |-> LegendsValue("undefined", <<>>)]
          [] s = "empty" ->
               [hasGetLegends |-> TRUE, title |-> "", name |-> "",
                returns |-> LegendsValue("array", <<>>)]
          [] s = "broken" ->
               [hasGetLegends |-> TRUE, title |-> "", name |-> "",
                returns |-> LegendsValue("throws", <<>>)]
          [] s = "badstyle" ->
               [hasGetLegends |-> TRUE, title |-> "", name |-> "",
                returns |-> LegendsValue("array",
                    <<Entry("moulin", "ok", "undefined"),
                      Entry("auberge", "bad", "Polygon")>>)]
          [] OTHER ->
               [hasGetLegends |-> FALSE, title |-> "", name |-> "",
                returns |-> LegendsValue("undefined", <<>>)]]

(***************************************************************************)
(* Frame snapshots                                                         *)
(***************************************************************************)
LayerState(source, visible, maxResolution) ==
    [source |-> source, visible |-> visible,
     minResolution |-> 0, maxResolution |-> maxResolution]

\* a layer without resolution limit
NoLimit == MaxResolution + 1

Frame(layerStatesArray, resolution) ==
    [present |-> TRUE, layerStatesArray |-> layerStatesArray,
     viewState |-> [resolution |-> resolution]]

\* mapEvent.frameState absent
NoFrame ==
    [present |-> FALSE, layerStatesArray |-> <<>>,
     viewState |-> [resolution |-> 1]]

SeqsUpTo(S, n) == UNION {[1..k -> S] : k \in 0..n}

\* the layer states of the map the panel is attached to
PanelLayerStates ==
    {LayerState("hydro", TRUE, NoLimit),
     LayerState("hydro", FALSE, NoLimit),
     LayerState("empty", TRUE, NoLimit),
     LayerState("broken", TRUE, NoLimit),
     LayerState("badstyle", TRUE, NoLimit)}

\* every layer state a frame handed to collectSourceLegends_ may hold
AllLayerStates ==
    {LayerState(source, visible, maxResolution) :
        source \in SourceIds, visible \in BOOLEAN,
        maxResolution \in {MaxResolution, NoLimit}}

AllFrames ==
    {Frame(lsa, resolution) :
        lsa \in SeqsUpTo(AllLayerStates, MaxLayers),
        resolution \in 1..MaxResolution}

\* an inView that looks at the visible flag only
InViewVisibleOnly(layerState, viewState) == layerState.visible

\* inView(layerState, viewState) of ol/layer/Layer.js
InView(layerState, viewState) ==
    /\ layerState.visible
    /\ viewState.resolution >= layerState.minResolution
    /\ viewState.resolution < layerState.maxResolution

(***************************************************************************)
(* createLegendItem_                                                       *)
(***************************************************************************)
PolygonRing ==
    << <<2, 6>>, <<15, 6>>, <<28, 2>>, <<26, 24>>, <<10, 20>>, <<4, 26>>, <<2, 2>> >>

LineStringPath ==
    << <<0, 15>>, <<6, 10>>, <<12, 20>>, <<18, 18>>, <<24, 15>>, <<30, 15>> >>

PointCoordinate == << <<15, 15>> >>

\* a point probe whatever the geometry kind
ProbeGeometryPoint(geometry) ==
    [type |-> "Point", coordinates |-> PointCoordinate]

\* the geometry built at lines 256-279
ProbeGeometry(geometry) ==
    IF geometry = "Polygon"
    THEN [type |-> "Polygon", coordinates |-> PolygonRing]
    ELSE IF geometry = "LineString"
         THEN [type |-> "LineString", coordinates |-> LineStringPath]
         ELSE [type |-> "Point", coordinates |-> PointCoordinate]

\* vectorContext.setStyle(style) fails on a style the renderer cannot read
SetStyleThrows(style) == style # "ok"

\* the li element, or the exception leaving createLegendItem_
CreateLegendItem(label, style, geometry) ==
    IF SetStyleThrows(style)
    THEN [threw |-> TRUE, label |-> label,
          canvas |-> [size |-> <<CanvasSize, CanvasSize>>, drawn |-> <<>>]]
    ELSE [threw |-> FALSE, label |-> label,
          canvas |-> [size |-> <<CanvasSize, CanvasSize>>,
                      drawn |-> <<ProbeGeometry(geometry)>>]]

(***************************************************************************)
(* collectSourceLegends_                                                   *)
(***************************************************************************)
\* ids of the nodes in a sequence of elements
Ids(elements) == {elements[i].id : i \in 1..Len(elements)}

\* Node ids come from two banks of MaxLayers ids each; the nodes a call
\* creates are taken from the bank that holds no node in use.
FreeBank(used) ==
    IF used \cap (1..MaxLayers) = {} THEN 0 ELSE MaxLayers

\* document.createElement: the n-th node created by a call, distinct from
\* every node in use and from the nodes the call created before
CreateElement(bank, n) == bank + n

\* typeof source.getLegends === 'function' ? source.getLegends() : undefined
GetLegends(source) ==
    IF source.hasGetLegends
    THEN source.returns
    ELSE LegendsValue("undefined", <<>>)

\* !legends : only undefined is falsy among the values a source returns
Falsy(value) == value.kind = "undefined"

\* a push at the front instead of the end
Unshift(array, element) == <<element>> \o array

\* visibleLegends.push(divElement)
Push(array, element) == Append(array, element)

\* the loop of lines 211-218 (or the single call of lines 220-225)
RECURSIVE AppendItems(_, _, _)
AppendItems(entries, j, ul) ==
    IF j > Len(entries)
    THEN [threw |-> FALSE, items |-> ul]
    ELSE LET legendItem ==
                 CreateLegendItem(entries[j].label, entries[j].style,
                                  entries[j].geometry)
         IN  IF legendItem.threw
             THEN [threw |-> TRUE, items |-> ul]
             ELSE AppendItems(entries, j + 1,
                      Append(ul, [label |-> legendItem.label,
                                  canvas |-> legendItem.canvas]))

\* the body of the loop of lines 180-230 from layer i on
RECURSIVE CollectFrom(_, _, _, _)
CollectFrom(frame, i, visibleLegends, bank) ==
    IF i > Len(frame.layerStatesArray)
    THEN [threw |-> FALSE, blocks |-> visibleLegends]
    ELSE LET layerState == frame.layerStatesArray[i]
             source == Sources[layerState.source]
             value == GetLegends(source)
             id == CreateElement(bank, Len(visibleLegends) + 1)
             ul == AppendItems(value.entries, 1, <<>>)
             \* "source" records which source the block was built for; the
             \* control never reads it
             divElement == [id |-> id, source |-> layerState.source,
                            title |-> source.title, items |-> ul.items]
         IN  IF ~InView(layerState, frame.viewState)
             THEN CollectFrom(frame, i + 1, visibleLegends, bank)
             ELSE IF layerState.source = "null"
             THEN CollectFrom(frame, i + 1, visibleLegends, bank)
             ELSE IF source.hasGetLegends /\ source.returns.kind = "throws"
             THEN [threw |-> TRUE, blocks |-> <<>>]
             ELSE IF Falsy(value)
             THEN CollectFrom(frame, i + 1, visibleLegends, bank)
             ELSE IF ul.threw
             THEN [threw |-> TRUE, blocks |-> <<>>]
             ELSE CollectFrom(frame, i + 1, Push(visibleLegends, divElement),
                              bank)

\* "used": the ids of the nodes in use when the call starts
CollectSourceLegends(frame, used) ==
    CollectFrom(frame, 1, <<>>, FreeBank(used))

\* a comparison of the lengths only
EqualsByLength(a, b) == Len(a) = Len(b)

\* ol/array equals: same length and identical elements
Equals(a, b) ==
    /\ Len(a) = Len(b)
    /\ \A i \in 1..Len(a) : a[i].id = b[i].id

(***************************************************************************)
(* The control                                                             *)
(***************************************************************************)
\* a boolean option: "undefined", "true" or "false"
OptionValues == {"undefined", "true", "false"}

\* options.x !== undefined ? options.x : default
OptionOr(value, default) ==
    IF value # "undefined" THEN value = "true" ELSE default

Options == [collapsible : OptionValues, collapsed : OptionValues]

\* what options.label and options.collapseLabel can hold: nothing, a
\* string, an element, or a value that is neither
LabelValues == {"undefined", "string", "element", "null", "number"}

LabelOptions == [label : LabelValues, collapseLabel : LabelValues]

DefaultLabels == [label |-> "undefined", collapseLabel |-> "undefined"]

\* the value kept in label_ / collapseLabel_: a span made from the string
\* (or from the default string), otherwise the option as it is
LabelNode(option) ==
    IF option \in {"undefined", "string"} THEN "span" ELSE option

\* the value is a DOM node
IsNode(value) == value \in {"span", "element"}

\* element.classList.toggle(name)
ClassToggle(classes, name) ==
    IF name \in classes THEN classes \ {name} ELSE classes \cup {name}

\* replaceNode(newNode, oldNode) on the button: acts only when oldNode has a
\* parent, that is when oldNode is the child of the button
ReplaceNode(newNode, oldNode, child) ==
    IF child = oldNode THEN newNode ELSE child

\* replaceNode(newNode, oldNode) ends with a TypeError: oldNode.parentNode
\* of null, or parent.replaceChild of a newNode that is no node
ReplaceThrows(newNode, oldNode, isChild) ==
    \/ oldNode = "null"
    \/ isChild /\ ~IsNode(newNode)

\* the collapse state of the control and its presentation, as one value
Panel ==
    [collapsed_ |-> collapsed_, collapsible_ |-> collapsible_,
     classList |-> classList, buttonChild |-> buttonChild]

\* a constructor that keeps the collapsed option of an uncollapsible control
ConstructorKeepsCollapsed(options) ==
    LET collapsible == OptionOr(options.collapsible, TRUE)
        collapsed == OptionOr(options.collapsed, TRUE)
    IN  [collapsed_ |-> collapsed,
         collapsible_ |-> collapsible,
         buttonChild |-> IF collapsible /\ ~collapsed
                         THEN "collapseLabel_" ELSE "label_",
         classList |-> (IF collapsed /\ collapsible
                        THEN {CLASS_COLLAPSED} ELSE {})
                       \cup (IF collapsible THEN {} ELSE {CLASS_UNCOLLAPSIBLE}),
         display |-> "",
         renderedLegends_ |-> <<>>,
         divChildren |-> <<>>,
         renderedVisible_ |-> TRUE]

\* the fields and nodes the constructor sets up
Constructor(options) ==
    LET collapsible == OptionOr(options.collapsible, TRUE)
        collapsed == IF ~collapsible
                     THEN FALSE
                     ELSE OptionOr(options.collapsed, TRUE)
    IN  [collapsed_ |-> collapsed,
         collapsible_ |-> collapsible,
         buttonChild |-> IF collapsible /\ ~collapsed
                         THEN "collapseLabel_" ELSE "label_",
         classList |-> (IF collapsed /\ collapsible
                        THEN {CLASS_COLLAPSED} ELSE {})
                       \cup (IF collapsible THEN {} ELSE {CLASS_UNCOLLAPSIBLE}),
         display |-> "",
         renderedLegends_ |-> <<>>,
         divChildren |-> <<>>,
         renderedVisible_ |-> TRUE]

\* button.appendChild(activeLabel) ends with a TypeError
ConstructorThrows(options, labels) ==
    LET this == Constructor(options)
        activeLabel == IF this.collapsible_ /\ ~this.collapsed_
                       THEN LabelNode(labels.collapseLabel)
                       ELSE LabelNode(labels.label)
    IN  ~IsNode(activeLabel)

\* the replaceNode call of handleToggle_ ends with a TypeError
ToggleThrows(p) ==
    IF p.collapsed_
    THEN ReplaceThrows(collapseLabel_, label_, p.buttonChild = "label_")
    ELSE ReplaceThrows(label_, collapseLabel_, p.buttonChild = "collapseLabel_")

HandleToggle(p) ==
    IF ToggleThrows(p)
    THEN [p EXCEPT !.classList = ClassToggle(@, CLASS_COLLAPSED)]
    ELSE [p EXCEPT
        !.classList = ClassToggle(@, CLASS_COLLAPSED),
        !.buttonChild = IF p.collapsed_
                        THEN ReplaceNode("collapseLabel_", "label_", @)
                        ELSE ReplaceNode("label_", "collapseLabel_", @),
        !.collapsed_ = ~@]

HandleClick(p) == HandleToggle(p)

\* a setCollapsible that does not expand a collapsed control
SetCollapsibleNoExpand(p, collapsible) ==
    IF p.collapsible_ = collapsible
    THEN p
    ELSE [p EXCEPT !.collapsible_ = collapsible,
                   !.classList = ClassToggle(@, CLASS_UNCOLLAPSIBLE)]

\* setCollapsible(collapsible) ends with the TypeError of handleToggle_
SetCollapsibleThrows(p, collapsible) ==
    /\ p.collapsible_ # collapsible
    /\ ~collapsible /\ p.collapsed_
    /\ ToggleThrows(p)

SetCollapsibleOp(p, collapsible) ==
    IF p.collapsible_ = collapsible
    THEN p
    ELSE LET q == [p EXCEPT !.collapsible_ = collapsible,
                            !.classList = ClassToggle(@, CLASS_UNCOLLAPSIBLE)]
         IN  IF ~collapsible /\ q.collapsed_ THEN HandleToggle(q) ELSE q

\* a setCollapsed that does not look at collapsible_
SetCollapsedUnguarded(p, collapsed) ==
    IF p.collapsed_ = collapsed
    THEN p
    ELSE HandleToggle(p)

\* setCollapsed(collapsed) ends with the TypeError of handleToggle_
SetCollapsedThrows(p, collapsed) ==
    /\ p.collapsible_ /\ p.collapsed_ # collapsed
    /\ ToggleThrows(p)

SetCollapsedOp(p, collapsed) ==
    IF ~p.collapsible_ \/ p.collapsed_ = collapsed
    THEN p
    ELSE HandleToggle(p)

\* the rendering state of the control, as one value
Content ==
    [display |-> display, renderedVisible_ |-> renderedVisible_,
     renderedLegends_ |-> renderedLegends_, divChildren |-> divChildren]

\* updateElement_: the rendering state it leaves and what the collection
\* yielded ("collected" is FALSE when collectSourceLegends_ was not called)
UpdateElement(c, frame) ==
    IF ~frame.present
    THEN [content |-> IF c.renderedVisible_
                      THEN [c EXCEPT !.display = "none",
                                     !.renderedVisible_ = FALSE]
                      ELSE c,
          legends |-> [collected |-> FALSE, threw |-> FALSE, blocks |-> <<>>]]
    ELSE LET got == CollectSourceLegends(frame, Ids(c.renderedLegends_))
             visible == Len(got.blocks) > 0
             shown == IF c.renderedVisible_ # visible
                      THEN [c EXCEPT !.display = IF visible THEN "" ELSE "none",
                                     !.renderedVisible_ = visible]
                      ELSE c
         IN  IF got.threw
             THEN [content |-> c,
                   legends |-> [collected |-> TRUE, threw |-> TRUE,
                                blocks |-> <<>>]]
             ELSE [content |-> IF Equals(got.blocks, c.renderedLegends_)
                               THEN shown
                               ELSE [shown EXCEPT
                                        !.divChildren = got.blocks,
                                        !.renderedLegends_ = got.blocks],
                   legends |-> [collected |-> TRUE, threw |-> FALSE,
                                blocks |-> got.blocks]]

(***************************************************************************)
(* Actions                                                                 *)
(***************************************************************************)
SetPanel(p) ==
    /\ collapsed_' = p.collapsed_
    /\ collapsible_' = p.collapsible_
    /\ classList' = p.classList
    /\ buttonChild' = p.buttonChild

SetContent(c) ==
    /\ display' = c.display
    /\ renderedVisible_' = c.renderedVisible_
    /\ renderedLegends_' = c.renderedLegends_
    /\ divChildren' = c.divChildren

BoolArg(b) == IF b THEN "true" ELSE "false"

\* new Legend(options): the control it leaves, or the TypeError of line 126,
\* after which there is no control
Construct(options, labels) ==
    LET this == Constructor(options)
        failed == ConstructorThrows(options, labels)
    IN  /\ collapsed_ = this.collapsed_
        /\ collapsible_ = this.collapsible_
        /\ classList = IF failed THEN {} ELSE this.classList
        /\ buttonChild = IF failed THEN "" ELSE this.buttonChild
        /\ display = this.display
        /\ renderedVisible_ = this.renderedVisible_
        /\ renderedLegends_ = this.renderedLegends_
        /\ divChildren = this.divChildren
        /\ label_ = LabelNode(labels.label)
        /\ collapseLabel_ = LabelNode(labels.collapseLabel)
        /\ typeError = IF failed THEN "construct" ELSE "none"
        /\ lastOp = [op |-> "construct",
                     args |-> <<options.collapsible, options.collapsed>>]
        /\ legends = [collected |-> FALSE, threw |-> FALSE, blocks |-> <<>>]
        /\ before = [collapsed_ |-> this.collapsed_,
                     collapsible_ |-> this.collapsible_,
                     classList |-> IF failed THEN {} ELSE this.classList,
                     buttonChild |-> IF failed THEN "" ELSE this.buttonChild]
        /\ seenContent = FALSE

\* new Legend(options) with the default labels, on a map without layers
Init ==
    \E options \in Options :
        /\ Construct(options, DefaultLabels)
        /\ frameState = Frame(<<>>, 1)

\* the control exists
Constructed == typeError # "construct"

\* a click that also empties the panel body
ClickClearsBody ==
    /\ Constructed
    /\ SetPanel(HandleClick(Panel))
    /\ typeError' = IF ToggleThrows(Panel) THEN "click" ELSE "none"
    /\ lastOp' = [op |-> "click", args |-> <<>>]
    /\ before' = Panel
    /\ divChildren' = <<>>
    /\ UNCHANGED <<display, renderedVisible_, renderedLegends_, frameState,
                   legends, seenContent, labelVars>>

\* a click on the button
Click ==
    /\ Constructed
    /\ SetPanel(HandleClick(Panel))
    /\ typeError' = IF ToggleThrows(Panel) THEN "click" ELSE "none"
    /\ lastOp' = [op |-> "click", args |-> <<>>]
    /\ before' = Panel
    /\ UNCHANGED <<contentVars, frameState, legends, seenContent, labelVars>>

SetCollapsible ==
    \E collapsible \in BOOLEAN :
        /\ Constructed
        /\ SetPanel(SetCollapsibleOp(Panel, collapsible))
        /\ typeError' = IF SetCollapsibleThrows(Panel, collapsible)
                        THEN "setCollapsible" ELSE "none"
        /\ lastOp' = [op |-> "setCollapsible", args |-> <<BoolArg(collapsible)>>]
        /\ before' = Panel
        /\ UNCHANGED <<contentVars, frameState, legends, seenContent,
                       labelVars>>

SetCollapsed ==
    \E collapsed \in BOOLEAN :
        /\ Constructed
        /\ SetPanel(SetCollapsedOp(Panel, collapsed))
        /\ typeError' = IF SetCollapsedThrows(Panel, collapsed)
                        THEN "setCollapsed" ELSE "none"
        /\ lastOp' = [op |-> "setCollapsed", args |-> <<BoolArg(collapsed)>>]
        /\ before' = Panel
        /\ UNCHANGED <<contentVars, frameState, legends, seenContent,
                       labelVars>>

\* a render that hides the panel when the collection throws
RenderHidesOnError ==
    \E present \in BOOLEAN :
        LET r == UpdateElement(Content, IF present THEN frameState ELSE NoFrame)
        IN  /\ Constructed
            /\ SetContent(IF r.legends.threw
                          THEN [r.content EXCEPT !.display = "none",
                                                 !.renderedVisible_ = FALSE]
                          ELSE r.content)
            /\ legends' = r.legends
            /\ typeError' = "none"
            /\ lastOp' = [op |-> "onFrame", args |-> <<BoolArg(present)>>]
            /\ before' = Panel
            /\ seenContent' = (seenContent \/ Len(r.legends.blocks) > 0)
            /\ UNCHANGED <<collapseVars, frameState, labelVars>>

\* a render that returns at once when the map event has no frame state
RenderSkipsNoFrame ==
    \E present \in BOOLEAN :
        LET r == IF present
                 THEN UpdateElement(Content, frameState)
                 ELSE [content |-> Content,
                       legends |-> [collected |-> FALSE, threw |-> FALSE,
                                    blocks |-> <<>>]]
        IN  /\ Constructed
            /\ SetContent(r.content)
            /\ legends' = r.legends
            /\ typeError' = "none"
            /\ lastOp' = [op |-> "onFrame", args |-> <<BoolArg(present)>>]
            /\ before' = Panel
            /\ seenContent' = (seenContent \/ Len(r.legends.blocks) > 0)
            /\ UNCHANGED <<collapseVars, frameState, labelVars>>

\* render(mapEvent), the map's per-frame callback; mapEvent.frameState is
\* the frame state of the map, or null
Render ==
    \E present \in BOOLEAN :
        LET r == UpdateElement(Content, IF present THEN frameState ELSE NoFrame)
        IN  /\ Constructed
            /\ SetContent(r.content)
            /\ legends' = r.legends
            /\ typeError' = "none"
            /\ lastOp' = [op |-> "onFrame", args |-> <<BoolArg(present)>>]
            /\ before' = Panel
            /\ seenContent' = (seenContent \/ Len(r.legends.blocks) > 0)
            /\ UNCHANGED <<collapseVars, frameState, labelVars>>

\* the map gets one more layer on top
AddLayer ==
    \E layerState \in PanelLayerStates :
        /\ Len(frameState.layerStatesArray) < MaxLayers
        /\ frameState' = [frameState EXCEPT
                             !.layerStatesArray = Append(@, layerState)]
        /\ lastOp' = [op |-> "map", args |-> <<>>]
        /\ before' = Panel
        /\ UNCHANGED <<collapseVars, contentVars, legends, seenContent,
                       labelVars, typeError>>

\* the top layer of the map is removed
RemoveLayer ==
    /\ Len(frameState.layerStatesArray) > 0
    /\ frameState' = [frameState EXCEPT
                         !.layerStatesArray = SubSeq(@, 1, Len(@) - 1)]
    /\ lastOp' = [op |-> "map", args |-> <<>>]
    /\ before' = Panel
    /\ UNCHANGED <<collapseVars, contentVars, legends, seenContent,
                   labelVars, typeError>>

Next ==
    \/ Click
    \/ SetCollapsible
    \/ SetCollapsed
    \/ Render
    \/ AddLayer
    \/ RemoveLayer

Spec == Init /\ [][Next]_vars

(***************************************************************************)
(* collectSourceLegends_ on its own: a freshly constructed control and any *)
(* frame state; the only step is one call of collectSourceLegends_.        *)
(***************************************************************************)
InitCollect ==
    /\ Construct([collapsible |-> "undefined", collapsed |-> "undefined"],
                 DefaultLabels)
    /\ frameState \in AllFrames

\* this.collectSourceLegends_(frameState)
Collect ==
    LET got == CollectSourceLegends(frameState, Ids(renderedLegends_))
    IN  /\ legends' = [collected |-> TRUE, threw |-> got.threw,
                       blocks |-> got.blocks]
        /\ lastOp' = [op |-> "collect", args |-> <<>>]
        /\ UNCHANGED <<collapseVars, contentVars, frameState, before,
                       seenContent, labelVars, typeError>>

SpecCollect == InitCollect /\ [][Collect]_vars

(***************************************************************************)
(* A freshly constructed control on a map with any frame state, rendered   *)
(* again and again.                                                        *)
(***************************************************************************)
SpecFrame == InitCollect /\ [][Render]_vars

(***************************************************************************)
(* A control constructed with any label options, on a map without layers.  *)
(***************************************************************************)
InitLabels ==
    \E options \in Options, labels \in LabelOptions :
        /\ Construct(options, labels)
        /\ frameState = Frame(<<>>, 1)

NextLabels ==
    \/ Click
    \/ SetCollapsible
    \/ SetCollapsed
    \/ Render

SpecLabels == InitLabels /\ [][NextLabels]_vars

(***************************************************************************)
(* Vocabulary of the properties                                            *)
(***************************************************************************)
Hidden == display = "none"

CollapsedClass == CLASS_COLLAPSED \in classList

\* a render call that received a frame state has just returned normally
FrameRendered ==
    /\ lastOp = [op |-> "onFrame", args |-> <<"true">>]
    /\ legends.collected
    /\ ~legends.threw

\* a block without the identity of its node
BlockValue(block) == [title |-> block.title, items |-> block.items]

\* the same blocks, the same entries, in the same order, compared by value
SameContent(a, b) ==
    /\ Len(a) = Len(b)
    /\ \A i \in 1..Len(a) : BlockValue(a[i]) = BlockValue(b[i])

\* the layers of a frame that are in view and have a source
VisibleLayers(frame) ==
    {i \in 1..Len(frame.layerStatesArray) :
        /\ InView(frame.layerStatesArray[i], frame.viewState)
        /\ frame.layerStatesArray[i].source # "null"}

SourceOf(frame, i) == Sources[frame.layerStatesArray[i].source]

\* the legend accessor of the source throws
AccessorThrows(source) ==
    source.hasGetLegends /\ source.returns.kind = "throws"

\* the source declares at least one legend entry, all of them drawable
HasLegend(source) ==
    /\ source.hasGetLegends
    /\ source.returns.kind \in {"array", "object"}
    /\ Len(source.returns.entries) > 0
    /\ \A j \in 1..Len(source.returns.entries) :
           source.returns.entries[j].style = "ok"

\* the source declares no legend entry
NoEntries(source) ==
    \/ ~source.hasGetLegends
    \/ source.returns.kind = "undefined"
    \/ source.returns.kind \in {"array", "object"} /\ source.returns.entries = <<>>

\* the block shows every entry of the source, in the source's order
CompleteBlockOf(block, sourceId) ==
    /\ block.source = sourceId
    /\ Len(block.items) = Len(Sources[sourceId].returns.entries)
    /\ \A j \in 1..Len(block.items) :
           block.items[j].label = Sources[sourceId].returns.entries[j].label

(***************************************************************************)
(* C1  Idempotent re-render.  When two consecutive render calls receive    *)
(* frame states whose collected contents are equal by value, the second    *)
(* call leaves the panel body and the cached content as they are.          *)
(* The code compares the freshly created block nodes by identity: the      *)
(* second call rebuilds the body whenever the content is not empty.        *)
(***************************************************************************)
C1_IdempotentRerender ==
    [][(/\ lastOp'.op = "onFrame"
        /\ legends.collected /\ ~legends.threw
        /\ legends'.collected /\ ~legends'.threw
        /\ SameContent(legends.blocks, legends'.blocks))
       => UNCHANGED <<renderedLegends_, divChildren>>]_vars

(***************************************************************************)
(* C2  A click on the button changes nothing while the control is not      *)
(* collapsible.  handleClick_ toggles without looking at collapsible_.     *)
(***************************************************************************)
C2_ClickNoOpWhenUncollapsible ==
    [][(lastOp'.op = "click" /\ ~collapsible_)
       => UNCHANGED <<collapsed_, buttonChild, classList>>]_vars

(***************************************************************************)
(* C3  In every reachable state, a control that is not collapsible is not  *)
(* collapsed.  A click on an uncollapsible control breaks it (see C2).     *)
(***************************************************************************)
C3_UncollapsibleNotCollapsed == ~collapsible_ => ~collapsed_

(***************************************************************************)
(* C4  Failure isolation for providers.  After a render call whose frame   *)
(* has exactly two visible layers, one with a source whose accessor throws *)
(* and one with a source that has a legend, the collected content holds    *)
(* the complete block of the other source and the panel body shows it.     *)
(* The exception leaves collectSourceLegends_ and updateElement_ instead:  *)
(* nothing is collected and the body is not touched.                       *)
(***************************************************************************)
C4_ProviderFailureIsolated ==
    (/\ lastOp = [op |-> "onFrame", args |-> <<"true">>]
     /\ Cardinality(VisibleLayers(frameState)) = 2
     /\ \E i, k \in VisibleLayers(frameState) :
            /\ AccessorThrows(SourceOf(frameState, i))
            /\ HasLegend(SourceOf(frameState, k)))
    => \A k \in VisibleLayers(frameState) :
           HasLegend(SourceOf(frameState, k))
           => /\ \E n \in 1..Len(legends.blocks) :
                     CompleteBlockOf(legends.blocks[n],
                                     frameState.layerStatesArray[k].source)
              /\ \E n \in 1..Len(divChildren) :
                     CompleteBlockOf(divChildren[n],
                                     frameState.layerStatesArray[k].source)

(***************************************************************************)
(* C5  Every block of a collected content has at least one entry.  A       *)
(* source whose getLegends returns an empty array passes the !legends      *)
(* test and gets a block with an empty list.                               *)
(***************************************************************************)
C5_NoEmptyBlock ==
    (legends.collected /\ ~legends.threw)
    => \A n \in 1..Len(legends.blocks) : Len(legends.blocks[n].items) > 0

(***************************************************************************)
(* C6  After a render call that received a frame state, the panel is       *)
(* hidden exactly when the collected content has no block; in particular   *)
(* it is hidden when no visible layer contributes an entry.  The first     *)
(* half holds (C6_HiddenIffNoBlock); the second fails for a source that    *)
(* returns an empty array (see C5).                                        *)
(***************************************************************************)
C6_HiddenIffNoBlock ==
    FrameRendered => (Hidden <=> Len(legends.blocks) = 0)

C6_HiddenIffNoContent ==
    FrameRendered
    => /\ Hidden <=> Len(legends.blocks) = 0
       /\ (\A i \in VisibleLayers(frameState) : NoEntries(SourceOf(frameState, i)))
          => Hidden

(***************************************************************************)
(* C7  The panel is hidden as long as no render call has collected a       *)
(* non-empty content.  The constructor leaves the element displayed.       *)
(***************************************************************************)
C7_HiddenUntilContent == ~seenContent => Hidden

(***************************************************************************)
(* C8  Right after construction with collapsible: false, whatever the      *)
(* collapsed option, the control is not collapsible, not collapsed, and    *)
(* its element does not carry the collapsed class.                         *)
(***************************************************************************)
C8_UncollapsibleForcesExpanded ==
    (lastOp.op = "construct" /\ lastOp.args[1] = "false")
    => /\ ~collapsible_
       /\ ~collapsed_
       /\ ~CollapsedClass

C8_Witness ==
    /\ lastOp = [op |-> "construct", args |-> <<"false", "true">>]
    /\ ~collapsible_
    /\ ~collapsed_

(***************************************************************************)
(* C9  setCollapsible(false) on a collapsible, collapsed control expands   *)
(* it: afterwards it is not collapsible, not collapsed and without the     *)
(* collapsed class.  setCollapsible(x) on a control whose collapsible      *)
(* already equals x changes nothing.                                       *)
(***************************************************************************)
C9_SetCollapsibleExpands ==
    [][lastOp'.op = "setCollapsible"
       => /\ (lastOp'.args = <<"false">> /\ collapsible_ /\ collapsed_)
             => /\ ~collapsible_'
                /\ ~collapsed_'
                /\ CLASS_COLLAPSED \notin classList'
          /\ (collapsible_ = (lastOp'.args = <<"true">>))
             => UNCHANGED <<collapseVars, contentVars>>]_vars

C9_Witness ==
    /\ lastOp = [op |-> "setCollapsible", args |-> <<"false">>]
    /\ before.collapsible_ /\ before.collapsed_
    /\ CLASS_COLLAPSED \in before.classList
    /\ ~collapsible_ /\ ~collapsed_ /\ ~CollapsedClass

(***************************************************************************)
(* C10  setCollapsed(b) changes nothing when the control is not            *)
(* collapsible or collapsed already equals b; otherwise it does what one   *)
(* click does: collapsed is flipped, the collapsed class is toggled and    *)
(* the button label is swapped as by a click.  Whenever the control is     *)
(* collapsible, collapsed equals b after the call.                         *)
(***************************************************************************)
C10_SetCollapsed ==
    [][lastOp'.op = "setCollapsed"
       => LET b == lastOp'.args = <<"true">>
          IN  /\ (~collapsible_ \/ collapsed_ = b)
                 => UNCHANGED <<collapseVars, contentVars>>
              /\ (collapsible_ /\ collapsed_ # b)
                 => /\ collapsed_' = ~collapsed_
                    /\ classList' = ClassToggle(classList, CLASS_COLLAPSED)
                    /\ Panel' = HandleClick(Panel)
                    /\ UNCHANGED contentVars
              /\ collapsible_' => collapsed_' = b]_vars

C10_Witness ==
    /\ lastOp = [op |-> "setCollapsed", args |-> <<"true">>]
    /\ before.collapsible_ /\ ~before.collapsed_
    /\ collapsed_ /\ CollapsedClass

(***************************************************************************)
(* C11  Toggle round trip.  Two consecutive clicks bring collapsed back to *)
(* the value it had before the first one, and leave the button with the    *)
(* same label and the element with the same collapsed class.               *)
(* A control whose button shows label_ while expanded (constructed with    *)
(* collapsible: false) keeps label_ at the first click and gets            *)
(* collapseLabel_ at the second.                                           *)
(***************************************************************************)
C11_ToggleRoundTrip ==
    [][(lastOp.op = "click" /\ lastOp'.op = "click")
       => /\ collapsed_' = before.collapsed_
          /\ buttonChild' = before.buttonChild
          /\ (CLASS_COLLAPSED \in classList')
                 <=> (CLASS_COLLAPSED \in before.classList)]_vars
\* the same round trip, for the clicks on a collapsible control only
C11_ToggleRoundTripCollapsible ==
    [][(lastOp.op = "click" /\ lastOp'.op = "click" /\ collapsible_)
       => /\ collapsed_' = before.collapsed_
          /\ buttonChild' = before.buttonChild
          /\ (CLASS_COLLAPSED \in classList')
                 <=> (CLASS_COLLAPSED \in before.classList)]_vars

(***************************************************************************)
(* C12  Visibility gating.  A layer that is not in view (invisible, or     *)
(* with the view resolution outside its range) contributes no block to the *)
(* content collected for the frame, and the legend of its source is not    *)
(* in the panel body for that frame.                                       *)
(***************************************************************************)
\* the layer is explicitly invisible, or the view resolution is outside
\* its resolution range
Gated(layerState, viewState) ==
    \/ ~layerState.visible
    \/ viewState.resolution < layerState.minResolution
    \/ viewState.resolution >= layerState.maxResolution

LayersOutOfView(frame) ==
    {i \in 1..Len(frame.layerStatesArray) :
        Gated(frame.layerStatesArray[i], frame.viewState)}

LayersInView(frame) ==
    {i \in 1..Len(frame.layerStatesArray) :
        ~Gated(frame.layerStatesArray[i], frame.viewState)}

SourcesInView(frame) ==
    {frame.layerStatesArray[i].source : i \in LayersInView(frame)}

BlockSources(blocks) == {blocks[n].source : n \in 1..Len(blocks)}

\* the gating of a frame that was collected to its end: at most as many
\* blocks as layers in view, and no block of a source that only layers out
\* of view use
C12_VisibilityGating ==
    FrameRendered
    => /\ Len(legends.blocks) <= Cardinality(LayersInView(frameState))
       /\ Len(divChildren) <= Cardinality(LayersInView(frameState))
       /\ \A i \in LayersOutOfView(frameState) :
              LET sourceId == frameState.layerStatesArray[i].source
              IN  sourceId \notin SourcesInView(frameState)
                  => /\ sourceId \notin BlockSources(legends.blocks)
                     /\ sourceId \notin BlockSources(divChildren)

\* a visible layer out of its resolution range, with a legend, next to a
\* layer in view that has its block
C12_GatingWitness ==
    /\ FrameRendered
    /\ Len(divChildren) > 0
    /\ \E i \in LayersOutOfView(frameState) :
           /\ frameState.layerStatesArray[i].visible
           /\ HasLegend(SourceOf(frameState, i))
           /\ frameState.layerStatesArray[i].source
                  \notin BlockSources(divChildren)

(***************************************************************************)
(* C12  After any render call with a frame, the panel body has no block    *)
(* of a source that only layers out of view use.  A frame whose            *)
(* collection throws (see C4, C15) leaves the body of an earlier frame in  *)
(* place, with the blocks of layers that are out of view by now.           *)
(***************************************************************************)
C12_GatedNotInBody ==
    lastOp = [op |-> "onFrame", args |-> <<"true">>]
    => \A i \in LayersOutOfView(frameState) :
           LET sourceId == frameState.layerStatesArray[i].source
           IN  sourceId \notin SourcesInView(frameState)
               => /\ sourceId \notin BlockSources(legends.blocks)
                  /\ sourceId \notin BlockSources(divChildren)

(***************************************************************************)
(* C13  Ordering.  After a render call the blocks of the collected content *)
(* follow the order of their layers in layerStatesArray, the entries of    *)
(* each block follow the order in which the source returned them, and the  *)
(* panel body shows the blocks in that same order.                         *)
(***************************************************************************)
\* the sources of the layers that give a block, in the order of the layers
RECURSIVE SourcesInDrawOrder(_, _)
SourcesInDrawOrder(frame, i) ==
    IF i > Len(frame.layerStatesArray)
    THEN <<>>
    ELSE LET layerState == frame.layerStatesArray[i]
             rest == SourcesInDrawOrder(frame, i + 1)
         IN  IF /\ ~Gated(layerState, frame.viewState)
                /\ layerState.source # "null"
                /\ Sources[layerState.source].hasGetLegends
                /\ Sources[layerState.source].returns.kind \in {"array", "object"}
             THEN <<layerState.source>> \o rest
             ELSE rest

C13_Ordering ==
    FrameRendered
    => /\ [n \in 1..Len(legends.blocks) |-> legends.blocks[n].source]
              = SourcesInDrawOrder(frameState, 1)
       /\ \A n \in 1..Len(legends.blocks) :
              CompleteBlockOf(legends.blocks[n], legends.blocks[n].source)
       /\ divChildren = legends.blocks

\* two blocks of different sources, the first with several entries
C13_Witness ==
    /\ FrameRendered
    /\ Len(divChildren) = 2
    /\ divChildren[1].source # divChildren[2].source
    /\ Len(divChildren[1].items) > 1

(***************************************************************************)
(* C14  A source contributes at most one block to the content collected    *)
(* for one frame, also when several visible layers share it.  The loop of  *)
(* collectSourceLegends_ builds one block per layer and never looks at the *)
(* sources it has already met.                                             *)
(***************************************************************************)
C14_OneBlockPerSource ==
    (legends.collected /\ ~legends.threw)
    => \A m, n \in 1..Len(legends.blocks) :
           legends.blocks[m].source = legends.blocks[n].source => m = n

(***************************************************************************)
(* C15  Render failure isolation.  After a render call on a frame with an  *)
(* entry whose style makes createLegendItem_ throw, and no accessor that   *)
(* throws, every layer in view whose source returns entries has its block, *)
(* in the collected content and in the panel body, with all the entries    *)
(* that can be drawn.  The exception of createLegendItem_ is caught        *)
(* nowhere: it ends collectSourceLegends_ and updateElement_.              *)
(***************************************************************************)
Drawable(entry) == entry.style = "ok"

DrawableLabels(entries) ==
    LET drawable == SelectSeq(entries, Drawable)
    IN  [j \in 1..Len(drawable) |-> drawable[j].label]

ItemLabels(block) == [j \in 1..Len(block.items) |-> block.items[j].label]

\* the layers in view whose source returns a list of entries
LayersWithEntries(frame) ==
    {i \in LayersInView(frame) :
        /\ frame.layerStatesArray[i].source # "null"
        /\ SourceOf(frame, i).hasGetLegends
        /\ SourceOf(frame, i).returns.kind \in {"array", "object"}}

C15_RenderFailureIsolated ==
    (/\ lastOp = [op |-> "onFrame", args |-> <<"true">>]
     /\ \A i \in LayersInView(frameState) :
            frameState.layerStatesArray[i].source # "null"
            => ~AccessorThrows(SourceOf(frameState, i))
     /\ \E i \in LayersWithEntries(frameState) :
            \E j \in 1..Len(SourceOf(frameState, i).returns.entries) :
                ~Drawable(SourceOf(frameState, i).returns.entries[j]))
    => \A k \in LayersWithEntries(frameState) :
           LET sourceId == frameState.layerStatesArray[k].source
               labels == DrawableLabels(Sources[sourceId].returns.entries)
           IN  /\ \E n \in 1..Len(legends.blocks) :
                      /\ legends.blocks[n].source = sourceId
                      /\ ItemLabels(legends.blocks[n]) = labels
               /\ \E n \in 1..Len(divChildren) :
                      /\ divChildren[n].source = sourceId
                      /\ ItemLabels(divChildren[n]) = labels

(***************************************************************************)
(* C16  Invalid label options fail fast.  When options.label or            *)
(* options.collapseLabel is neither a string nor an element, the           *)
(* constructor fails, whatever the collapsible and collapsed options; no   *)
(* later click, setter call or frame fails because of the label.  The      *)
(* constructor checks nothing: it fails only when the invalid value is the *)
(* label it puts in the button, and the other one fails at a later toggle. *)
(***************************************************************************)
InvalidLabels == ~IsNode(label_) \/ ~IsNode(collapseLabel_)

C16_InvalidLabelsFailFast ==
    /\ (lastOp.op = "construct" /\ InvalidLabels) => typeError = "construct"
    /\ typeError \in {"none", "construct"}

\* no call after the constructor fails because of a label
C16_NoDeferredFailure == typeError \in {"none", "construct"}

(***************************************************************************)
(* C17  The block collected for a source carries the display title of the  *)
(* source: its 'title' property, or the name its getName() returns as in   *)
(* the README and the demo; a source with neither gives a block without    *)
(* title.  collectSourceLegends_ reads source.get('title') only and never  *)
(* calls getName().                                                        *)
(***************************************************************************)
DisplayTitle(source) ==
    IF source.title # "" THEN source.title ELSE source.name

C17_BlockCarriesTitle ==
    (legends.collected /\ ~legends.threw)
    => \A n \in 1..Len(legends.blocks) :
           legends.blocks[n].title
               = DisplayTitle(Sources[legends.blocks[n].source])

\* the half that holds: the 'title' property, when there is one, is the
\* title of the block, and a source without title and name has none
C17_TitleProperty ==
    (legends.collected /\ ~legends.threw)
    => \A n \in 1..Len(legends.blocks) :
           LET source == Sources[legends.blocks[n].source]
           IN  (source.title # "" \/ source.name = "")
               => legends.blocks[n].title = source.title

(***************************************************************************)
(* C18  Geometry-kind preview selection.  For every collected entry        *)
(* createLegendItem_ draws exactly one probe geometry on the canvas: a     *)
(* polygon of several vertices for the kind 'Polygon', an open polyline    *)
(* for 'LineString', and a single point at the centre of the canvas for    *)
(* an entry without geometry kind.                                         *)
(***************************************************************************)
ProbeFits(kind, probe, size) ==
    /\ kind = "Polygon"
        => /\ probe.type = "Polygon"
           /\ Len(probe.coordinates) >= 3
    /\ kind = "LineString"
        => /\ probe.type = "LineString"
           /\ Len(probe.coordinates) >= 2
           /\ probe.coordinates[1] # probe.coordinates[Len(probe.coordinates)]
    /\ kind = "undefined"
        => /\ probe.type = "Point"
           /\ probe.coordinates = << <<size[1] \div 2, size[2] \div 2>> >>

C18_ProbeByGeometryKind ==
    (legends.collected /\ ~legends.threw)
    => \A n \in 1..Len(legends.blocks) :
           LET block == legends.blocks[n]
               entries == Sources[block.source].returns.entries
           IN  /\ Len(block.items) = Len(entries)
               /\ \A j \in 1..Len(block.items) :
                      LET canvas == block.items[j].canvas
                      IN  /\ Len(canvas.drawn) = 1
                          /\ ProbeFits(entries[j].geometry, canvas.drawn[1],
                                       canvas.size)

\* a collected content with entries of the three kinds
C18_Witness ==
    /\ legends.collected /\ ~legends.threw
    /\ \A kind \in {"Polygon", "LineString", "undefined"} :
           \E n \in 1..Len(legends.blocks) :
               \E j \in 1..Len(legends.blocks[n].items) :
                   Sources[legends.blocks[n].source].returns.entries[j].geometry
                       = kind

C20_ButtonAffordance ==
    collapsible_
    => /\ buttonChild = "label_" <=> collapsed_
       /\ buttonChild = "collapseLabel_" <=> ~collapsed_

(***************************************************************************)
(* C21  In every state of a constructed control, whatever the construction *)
(* options and the calls made since, the element carries the collapsed     *)
(* class if and only if collapsed_ is true.  handleToggle_ toggles the     *)
(* class before replaceNode and flips collapsed_ after it: when            *)
(* replaceNode throws on a label that is no node (see C16), the class has  *)
(* changed and collapsed_ has not.                                         *)
(***************************************************************************)
C21_CollapsedClassIffCollapsed ==
    Constructed => (CollapsedClass <=> collapsed_)

(***************************************************************************)
(* C22  Cache/body agreement.  At construction and after every render call *)
(* that returned, the blocks in the panel body are, in order, the cached   *)
(* content renderedLegends_; after a render call with a frame state the    *)
(* cached content is the content collected for that frame.                 *)
(***************************************************************************)
C22_CacheBodyAgreement ==
    /\ (\/ lastOp.op = "construct"
        \/ lastOp.op = "onFrame" /\ ~legends.threw)
       => divChildren = renderedLegends_
    /\ FrameRendered => renderedLegends_ = legends.blocks

\* a frame whose blocks replaced the blocks of an earlier frame
C22_Witness ==
    /\ FrameRendered
    /\ Len(renderedLegends_) > 0
    /\ divChildren = renderedLegends_
    /\ FreeBank(Ids(renderedLegends_)) = 0

(***************************************************************************)
(* C23  A render call whose map event has no frame state hides the panel   *)
(* and leaves the cached content and the panel body as they are; a later   *)
(* render call on the hidden panel with a frame state that yields at least *)
(* one block shows the panel again, with the content of that frame.        *)
(***************************************************************************)
C23_NoFrameHidesThenShows ==
    [][/\ lastOp' = [op |-> "onFrame", args |-> <<"false">>]
          => /\ Hidden'
             /\ UNCHANGED <<renderedLegends_, divChildren>>
       /\ (/\ Hidden
           /\ lastOp' = [op |-> "onFrame", args |-> <<"true">>]
           /\ ~legends'.threw
           /\ Len(legends'.blocks) > 0)
          => /\ ~Hidden'
             /\ divChildren' = legends'.blocks
             /\ renderedLegends_' = legends'.blocks]_vars

\* a panel with blocks in its body, hidden by a render call without frame
\* state
C23_Witness ==
    /\ lastOp = [op |-> "onFrame", args |-> <<"false">>]
    /\ Hidden
    /\ Len(divChildren) > 0
    /\ divChildren = renderedLegends_

(***************************************************************************)
(* C24  State unchanged on error.  When the legend accessor of a source or *)
(* the preview of an entry throws during a render call, the exception      *)
(* leaves the call, and the cached content, the panel body, the display of *)
(* the element and the collapse state are what they were before the call.  *)
(***************************************************************************)
C24_UnchangedOnError ==
    [][(lastOp'.op = "onFrame" /\ legends'.threw)
       => UNCHANGED <<contentVars, collapseVars>>]_vars

\* a render call that threw on a panel showing the blocks of an earlier
\* frame
C24_Witness ==
    /\ lastOp = [op |-> "onFrame", args |-> <<"true">>]
    /\ legends.collected /\ legends.threw
    /\ ~Hidden
    /\ Len(divChildren) > 0
    /\ divChildren = renderedLegends_

====
